---- MODULE Spec2Model ----
(***************************************************************************)
(* Flashclose (run.py): the retry_async decorator and the main() cleanup   *)
(* run over one BitgetExchange session.                                    *)
(*                                                                         *)
(* The program is a single coroutine.  Its suspension points are the       *)
(* awaits of the remote calls made through self._exchange and the backoff  *)
(* sleep of the decorator.  One action = the code between two suspension   *)
(* points:                                                                 *)
(*   - one action per decorated method: one iteration of the decorator's   *)
(*     loop around one invocation of the method body (lines 25-35);        *)
(*   - sleep: the backoff sleep and the `continue` (lines 33-34);          *)
(*   - main_*: the code of main() from the end of one decorated call to    *)
(*     the start of the next.                                              *)
(* The exchange is the environment: every remote invocation returns a      *)
(* response or raises, chosen nondeterministically.                        *)
(***************************************************************************)
EXTENDS Integers, Sequences, FiniteSets, TLC

VARIABLES
    max_retries,      \* the value of the global MAX_RETRIES during the run
    base_delay,       \* the value of the global BASE_DELAY during the run
    \* --- the decorated call in progress (locals of retry_async.wrapper) ---
    op,               \* name of the decorated method being called
    arg,              \* <<item>> it was called with, <<>> if it takes none
    attempt,          \* the loop variable of `for attempt in range(MAX_RETRIES)`
    wpc,              \* "idle" | "try" | "sleep" | "returned" | "raised"
    delay,            \* the delay of the sleep in progress (0 when not sleeping)
    result,           \* what the call returned or raised
    \* --- observation of the call in progress ---
    calls,            \* invocations of the method body made by this call
    slept,            \* the delays this call has slept, in order
    outcomes,         \* how each invocation of the body ended: "ok" | "rl" | "err"
    answers,          \* what the exchange answered to each invocation
    body_out,         \* what the last invocation of the body returned or raised
    op_calls,         \* calls so far of close, load_markets and the four fetches
    resp,             \* shape and length of the response to the last invocation
    prev_sleeps,      \* SpecRetry: the number of sleeps of the call before this one
    \* --- main() ---
    pc,               \* the await main() is at
    positions, trigger_orders, tpsl_orders, limit_orders,
    idx,              \* index of the item of the running for loop
    exc,              \* the exception leaving the `async with` body
    acquired,         \* __aenter__ has returned
    failed_at,        \* the await at which an exception left the body
    connection,       \* the connection of self._exchange: "none" | "open" | "closed"
    printed_error,    \* the exception printed by line 300
    report_positions, \* lines 284-289
    report_orders     \* lines 291-297

cfg   == <<max_retries, base_delay>>
wvars == <<op, arg, attempt, wpc, delay, result, calls, slept, outcomes,
           answers, body_out, op_calls, resp>>
lists == <<positions, trigger_orders, tpsl_orders, limit_orders>>
outs  == <<printed_error, report_positions, report_orders>>
vars  == <<max_retries, base_delay, op, arg, attempt, wpc, delay, result,
           calls, slept, outcomes, answers, body_out, op_calls, resp,
           prev_sleeps, pc,
           positions, trigger_orders, tpsl_orders, limit_orders, idx, exc,
           acquired, failed_at, connection, printed_error, report_positions,
           report_orders>>

----------------------------------------------------------------------------
(* Configuration *)

MAX_RETRIES == 5
BASE_DELAY  == 1

\* Bounds of the model
MaxAttempts == 2      \* configured max-attempt values 1..MaxAttempts and MAX_RETRIES
MaxDelay    == 2      \* configured base delays 1..MaxDelay and BASE_DELAY
MaxItems    == 2      \* items per class on the account, and length of a response
MaxCalls    == 2      \* counted calls made by the sequence of calls of SpecRetry

Attempts == (1 .. MaxAttempts) \cup {MAX_RETRIES}
Delays   == (1 .. MaxDelay) \cup {BASE_DELAY}

----------------------------------------------------------------------------
(* Python values *)

\* A variable holding a list or None.
None      == [none |-> TRUE, items |-> <<>>]
List(s)   == [none |-> FALSE, items |-> s]
Truthy(v) == ~v.none /\ v.items # <<>>

\* Exceptions: a class and str(e) as a sequence of text pieces.
NoExc == [kind |-> "none", msg |-> <<>>]
RateLimitExceeded == [kind |-> "RateLimitExceeded", msg |-> <<"bitget too many requests">>]
Code429   == [kind |-> "ExchangeError", msg |-> <<"{\"code\":\"429\"", ",\"msg\":\"Too Many Requests\"}">>]
OtherError == [kind |-> "NetworkError", msg |-> <<"bitget GET timed out">>]
Exceptions == {RateLimitExceeded, Code429, OtherError}

\* What the exchange means by the answer (spec section 6): a rate-limit
\* condition is a distinct error kind or a payload carrying the 429 marker.
SignalsRateLimit(e) == e \in {RateLimitExceeded, Code429}

Returned(v) == [kind |-> "value", val |-> v, exc |-> NoExc]
Raised(e)   == [kind |-> "error", val |-> None, exc |-> e]
Unset       == [kind |-> "unset", val |-> None, exc |-> NoExc]

----------------------------------------------------------------------------
(* What the exchange can answer *)

InjSeqs(S, n) ==
    UNION { { f \in [1 .. k -> S] : \A i, j \in 1 .. k : i # j => f[i] # f[j] }
            : k \in 0 .. n }

Ids == 1 .. MaxItems

\* contracts is <<>> for a null quantity, <<q>> for the quantity q
Contracts == { <<>>, <<0>>, <<2>> }
Side(s) == IF s % 2 = 1 THEN "long" ELSE "short"
RawPositionLists ==
    UNION { { [i \in 1 .. Len(q) |->
                 [symbol |-> q[i], side |-> Side(q[i]), contracts |-> c[i]]]
              : c \in [1 .. Len(q) -> Contracts] }
            : q \in InjSeqs(Ids, MaxItems) }

\* The pending orders of one plan type, as the endpoint lists them.
PlanOrderLists(plan) ==
    { [i \in 1 .. k |-> [symbol |-> "BTCUSDT", orderId |-> i, planType |-> plan]]
      : k \in 0 .. MaxItems }

OrderTypes == {"limit", "market"}
LiveOrderLists ==
    UNION { { [i \in 1 .. k |->
                 [symbol |-> "BTCUSDT", orderId |-> i, orderType |-> t[i]]]
              : t \in [1 .. k -> OrderTypes] }
            : k \in 0 .. MaxItems }

\* The shapes of a response of the pending-orders endpoints:
\*   "empty"     {}
\*   "no_data"   no "data" key
\*   "no_list"   "data" without "entrustedList"
\*   "null_list" "entrustedList": null
\*   "list"      "entrustedList": [...]
Response(shape, l) == [shape |-> shape, list |-> l]
Responses(Ls) ==
    { Response(s, <<>>) : s \in {"empty", "no_data", "no_list", "null_list"} }
    \cup { Response("list", l) : l \in Ls }

Ok(v)   == [ok |-> TRUE, val |-> v, exc |-> NoExc]
Fail(e) == [ok |-> FALSE, val |-> <<>>, exc |-> e]
Failures == { Fail(e) : e \in Exceptions }

\* The answers of the remote operation a decorated method invokes.
Remote(o) ==
    Failures \cup
    CASE o = "fetch_open_positions"      -> { Ok(l) : l \in RawPositionLists }
      [] o = "fetch_open_trigger_orders" -> { Ok(r) : r \in Responses(PlanOrderLists("normal_plan")) }
      [] o = "fetch_open_tpsl_orders"    -> { Ok(r) : r \in Responses(PlanOrderLists("profit_loss")) }
      [] o = "fetch_open_limit_orders"   -> { Ok(r) : r \in Responses(LiveOrderLists) }
      [] OTHER                           -> { Ok(<<>>) }

\* How an invocation ended: with a value, a rate-limit signal or another error.
Classify(r) == IF r.ok THEN "ok" ELSE IF SignalsRateLimit(r.exc) THEN "rl" ELSE "err"

NoOut == [ok |-> FALSE, val |-> None, exc |-> NoExc]

\* What is observed of an answer: the shape of the response and the number of
\* items it lists (of the raw positions, of the entrustedList).
NoResp == [shape |-> "none", n |-> 0]
Observed(o, r) ==
    IF ~r.ok THEN NoResp
    ELSE IF o = "fetch_open_positions" THEN [shape |-> "list", n |-> Len(r.val)]
    ELSE IF o \in {"fetch_open_trigger_orders", "fetch_open_tpsl_orders",
                   "fetch_open_limit_orders"}
      THEN [shape |-> r.val.shape, n |-> Len(r.val.list)]
    ELSE NoResp
CountedOps == {"close", "load_markets", "fetch_open_positions",
               "fetch_open_trigger_orders", "fetch_open_tpsl_orders",
               "fetch_open_limit_orders"}

----------------------------------------------------------------------------
(* The bodies of the decorated methods: from the answer r of the remote    *)
(* operation to what the body returns or raises.                           *)

\* is_open without the test of the quantity against 0
is_open_m(pos) == pos.contracts # <<>>

\* line 75
is_open(pos) == pos.contracts # <<>> /\ pos.contracts[1] > 0

\* lines 72-77
fetch_open_positions_body(r) ==
    IF r.ok THEN Ok(List(SelectSeq(r.val, is_open))) ELSE r

\* lines 95-101 and 112-118
plan_orders_body(r) ==
    IF ~r.ok THEN r
    ELSE IF r.val.shape = "list" THEN Ok(List(r.val.list))
    ELSE IF r.val.shape = "null_list" THEN Ok(None)
    ELSE Ok(List(<<>>))

\* line 140
is_limit(order) == order.orderType = "limit"

\* fetch_open_limit_orders with an empty or data-less response raising instead
\* of being taken for "no orders"
fetch_open_limit_orders_body_m(r) ==
    IF ~r.ok THEN Ok(List(<<>>))
    ELSE IF r.val.shape \in {"empty", "no_data"} THEN Fail(OtherError)
    ELSE IF r.val.shape = "no_list" THEN Ok(List(<<>>))
    ELSE IF r.val.shape = "null_list" THEN Ok(List(<<>>))
    ELSE Ok(List(SelectSeq(r.val.list, is_limit)))

\* lines 129-144
fetch_open_limit_orders_body(r) ==
    IF ~r.ok THEN Ok(List(<<>>))
    ELSE IF r.val.shape \in {"empty", "no_data"} THEN Ok(List(<<>>))
    ELSE IF r.val.shape = "no_list" THEN Ok(List(<<>>))
    ELSE IF r.val.shape = "null_list" THEN Ok(List(<<>>))
    ELSE Ok(List(SelectSeq(r.val.list, is_limit)))

\* lines 63, 67, 82-84, 154, 164: the answer of the remote operation, as it is
plain_body(r) == IF r.ok THEN Ok(None) ELSE r

body(o, r) ==
    CASE o = "fetch_open_positions"      -> fetch_open_positions_body(r)
      [] o = "fetch_open_trigger_orders" -> plan_orders_body(r)
      [] o = "fetch_open_tpsl_orders"    -> plan_orders_body(r)
      [] o = "fetch_open_limit_orders"   -> fetch_open_limit_orders_body(r)
      [] OTHER                           -> plain_body(r)

----------------------------------------------------------------------------
(* retry_async *)

RECURSIVE Pow2(_)
Pow2(n) == IF n = 0 THEN 1 ELSE 2 * Pow2(n - 1)

\* is_rate_limit with every exception taken for a rate-limit signal
is_rate_limit_m(e) == TRUE

\* line 29
is_rate_limit(e) ==
    e.kind = "RateLimitExceeded" \/ (e.msg # <<>> /\ e.msg[1] = "{\"code\":\"429\"")

\* may_retry with the last attempt retried as well (off by one)
may_retry_m(e, a) == is_rate_limit(e) /\ a < max_retries

\* line 30
may_retry(e, a) == is_rate_limit(e) /\ a < max_retries - 1

\* backoff_delay growing linearly instead of doubling
backoff_delay_m(a) == base_delay * (a + 1)

\* line 31
backoff_delay(a) == base_delay * Pow2(a)

\* line 35
operation_failed(e) ==
    [kind |-> "Exception", msg |-> <<"BitgetExchange operation failed: ">> \o e.msg]

\* line 25: the loop runs its body while attempt is in range(MAX_RETRIES); a
\* loop that runs out falls off the end of wrapper, which returns None.
loop_pc(a) == IF a < max_retries THEN "try" ELSE "returned"

\* Enter with the attempt index kept from the call before
Enter_m(o, a) ==
    /\ op' = o
    /\ arg' = a
    /\ attempt' = attempt
    /\ wpc' = loop_pc(attempt)
    /\ delay' = 0
    /\ result' = IF loop_pc(attempt) = "try" THEN Unset ELSE Returned(None)
    /\ calls' = 0
    /\ slept' = <<>>
    /\ outcomes' = <<>>
    /\ answers' = <<>>
    /\ body_out' = NoOut
    /\ resp' = NoResp
    /\ op_calls' = IF o \in CountedOps
                     THEN [op_calls EXCEPT ![o] = @ + 1] ELSE op_calls

\* A call of a decorated method: line 25, attempt = 0.
Enter(o, a) ==
    /\ op' = o
    /\ arg' = a
    /\ attempt' = 0
    /\ wpc' = loop_pc(0)
    /\ delay' = 0
    /\ result' = IF loop_pc(0) = "try" THEN Unset ELSE Returned(None)
    /\ calls' = 0
    /\ slept' = <<>>
    /\ outcomes' = <<>>
    /\ answers' = <<>>
    /\ body_out' = NoOut
    /\ resp' = NoResp
    /\ op_calls' = IF o \in CountedOps
                     THEN [op_calls EXCEPT ![o] = @ + 1] ELSE op_calls

\* The connection of the ccxt client: opened by the first request made
\* through self._exchange, released by a successful self._exchange.close().
connection_after(o, r) ==
    IF o = "close" THEN (IF r.ok THEN "closed" ELSE connection) ELSE "open"

\* lines 25-35: one iteration of the loop around one invocation of the body
retry_async(o) ==
    /\ wpc = "try"
    /\ op = o
    /\ \E r \in Remote(o) :
         LET out == body(o, r) IN
         /\ calls' = calls + 1
         /\ outcomes' = Append(outcomes, Classify(out))
         /\ answers' = Append(answers, Classify(r))
         /\ body_out' = out
         /\ resp' = Observed(o, r)
         /\ connection' = connection_after(o, r)
         /\ IF out.ok
              THEN /\ wpc' = "returned"
                   /\ result' = Returned(out.val)
                   /\ delay' = 0
              ELSE IF may_retry(out.exc, attempt)
              THEN /\ wpc' = "sleep"
                   /\ delay' = backoff_delay(attempt)
                   /\ result' = result
              ELSE /\ wpc' = "raised"
                   /\ result' = Raised(operation_failed(out.exc))
                   /\ delay' = 0
    /\ UNCHANGED <<cfg, prev_sleeps, op, arg, attempt, slept, op_calls, pc, lists, idx, exc,
                   acquired, failed_at, outs>>

\* lines 33-34: await asyncio.sleep(delay); continue
sleep ==
    /\ wpc = "sleep"
    /\ slept' = Append(slept, delay)
    /\ attempt' = attempt + 1
    /\ wpc' = loop_pc(attempt + 1)
    /\ result' = IF loop_pc(attempt + 1) = "try" THEN result ELSE Returned(None)
    /\ delay' = 0
    /\ body_out' = NoOut      \* e is unbound when the except clause is left
    /\ UNCHANGED <<cfg, prev_sleeps, op, arg, calls, outcomes, answers, op_calls,
                   resp, pc, lists, idx, exc, acquired, failed_at, connection,
                   outs>>

close                     == retry_async("close")
load_markets              == retry_async("load_markets")
fetch_open_positions      == retry_async("fetch_open_positions")
flash_close_position      == retry_async("flash_close_position")
fetch_open_trigger_orders == retry_async("fetch_open_trigger_orders")
fetch_open_tpsl_orders    == retry_async("fetch_open_tpsl_orders")
fetch_open_limit_orders   == retry_async("fetch_open_limit_orders")
cancel_trigger_order      == retry_async("cancel_trigger_order")
cancel_limit_order        == retry_async("cancel_limit_order")

----------------------------------------------------------------------------
(* main() *)

NoReport == [printed |-> FALSE, success |-> FALSE, listed |-> <<>>, counts |-> <<>>]

CredentialsError ==
    [kind |-> "Exception", msg |-> <<"Failed to load API credentials: ">>]
TypeError ==
    [kind |-> "TypeError", msg |-> <<"object of type 'NoneType' has no len()">>]

\* Exit without the release when an exception leaves the body
Exit_m(e) ==
    IF e = NoExc
      THEN /\ exc' = e
           /\ failed_at' = failed_at
           /\ pc' = "aexit"
           /\ Enter("close", <<>>)
      ELSE /\ exc' = e
           /\ failed_at' = pc
           /\ pc' = "done"
           /\ UNCHANGED wvars

\* lines 57-59: an exception e (NoExc: none) leaves the `async with` body, or
\* the body ends; __aexit__ calls close()
Exit(e) ==
    /\ exc' = e
    /\ failed_at' = IF e # NoExc THEN pc ELSE failed_at
    /\ pc' = "aexit"
    /\ Enter("close", <<>>)

\* lines 194-197, 53-54: the credentials, the BitgetExchange object, and
\* __aenter__ up to its call of load_markets()
main_start ==
    /\ pc = "init"
    /\ \E credentials_ok \in BOOLEAN :
         IF credentials_ok
           THEN /\ pc' = "aenter"
                /\ Enter("load_markets", <<>>)
                /\ UNCHANGED printed_error
           ELSE /\ pc' = "done"
                /\ printed_error' = CredentialsError
                /\ UNCHANGED wvars
    /\ UNCHANGED <<cfg, prev_sleeps, lists, idx, exc, acquired, failed_at, connection,
                   report_positions, report_orders>>

\* main_entered with the order stages put before the positions stage
main_entered_m ==
    /\ pc = "aenter"
    /\ wpc \in {"returned", "raised"}
    /\ IF wpc = "raised"
         THEN /\ pc' = "done"
              /\ printed_error' = result.exc
              /\ UNCHANGED <<wvars, acquired>>
         ELSE /\ acquired' = TRUE
              /\ pc' = "fetch_trigger"
              /\ Enter("fetch_open_trigger_orders", <<>>)
              /\ UNCHANGED printed_error
    /\ UNCHANGED <<cfg, prev_sleeps, lists, idx, exc, failed_at, connection,
                   report_positions, report_orders>>

\* lines 54-55, 197-201: load_markets() has ended; if it raised, __aenter__
\* raises, the body and __aexit__ are skipped and line 300 prints the error
main_entered ==
    /\ pc = "aenter"
    /\ wpc \in {"returned", "raised"}
    /\ IF wpc = "raised"
         THEN /\ pc' = "done"
              /\ printed_error' = result.exc
              /\ UNCHANGED <<wvars, acquired>>
         ELSE /\ acquired' = TRUE
              /\ pc' = "fetch_positions"
              /\ Enter("fetch_open_positions", <<>>)
              /\ UNCHANGED printed_error
    /\ UNCHANGED <<cfg, prev_sleeps, lists, idx, exc, failed_at, connection,
                   report_positions, report_orders>>

\* main_positions_fetched with main() returning when there is no open position
main_positions_fetched_m ==
    /\ pc = "fetch_positions"
    /\ wpc \in {"returned", "raised"}
    /\ IF wpc = "raised"
         THEN /\ Exit(result.exc)
              /\ UNCHANGED <<lists, idx>>
         ELSE /\ positions' = result.val
              /\ IF Truthy(result.val)
                   THEN /\ idx' = 1
                        /\ pc' = "close_position"
                        /\ Enter("flash_close_position", <<result.val.items[1]>>)
                        /\ UNCHANGED <<exc, failed_at>>
                   ELSE /\ idx' = 0
                        /\ Exit(NoExc)
              /\ UNCHANGED <<trigger_orders, tpsl_orders, limit_orders>>
    /\ UNCHANGED <<cfg, prev_sleeps, acquired, connection, outs>>

\* lines 201-215: the fetch_positions call of stage "close_position" has ended
main_positions_fetched ==
    /\ pc = "fetch_positions"
    /\ wpc \in {"returned", "raised"}
    /\ IF wpc = "raised"
         THEN /\ Exit(result.exc)
              /\ UNCHANGED <<lists, idx>>
         ELSE /\ positions' = result.val
              /\ IF Truthy(result.val)
                   THEN /\ idx' = 1
                        /\ pc' = "close_position"
                        /\ Enter("flash_close_position", <<result.val.items[1]>>)
                   ELSE /\ idx' = 0
                        /\ pc' = "fetch_trigger"
                        /\ Enter("fetch_open_trigger_orders", <<>>)
              /\ UNCHANGED <<trigger_orders, tpsl_orders, limit_orders, exc, failed_at>>
    /\ UNCHANGED <<cfg, prev_sleeps, acquired, connection, outs>>

\* main_positions_done with the error of one position leaving the loop
main_positions_done_m ==
    /\ pc = "close_position"
    /\ wpc \in {"returned", "raised"}
    /\ IF wpc = "raised"
         THEN /\ Exit(result.exc)
              /\ UNCHANGED idx
         ELSE /\ IF idx < Len(positions.items)
                   THEN /\ idx' = idx + 1
                        /\ pc' = pc
                        /\ Enter("flash_close_position", <<positions.items[idx + 1]>>)
                   ELSE /\ idx' = 0
                        /\ pc' = "fetch_trigger"
                        /\ Enter("fetch_open_trigger_orders", <<>>)
              /\ UNCHANGED <<exc, failed_at>>
    /\ UNCHANGED <<cfg, prev_sleeps, lists, acquired, connection, outs>>

\* lines 215-222: the flash_close_position call for one position has ended; a raised
\* error is caught and printed, and the loop goes on
main_positions_done ==
    /\ pc = "close_position"
    /\ wpc \in {"returned", "raised"}
    /\ IF idx < Len(positions.items)
         THEN /\ idx' = idx + 1
              /\ pc' = pc
              /\ Enter("flash_close_position", <<positions.items[idx + 1]>>)
         ELSE /\ idx' = 0
              /\ pc' = "fetch_trigger"
              /\ Enter("fetch_open_trigger_orders", <<>>)
    /\ UNCHANGED <<cfg, prev_sleeps, lists, exc, acquired, failed_at, connection, outs>>

\* lines 222-234: the fetch_trigger call of stage "cancel_trigger" has ended
main_trigger_fetched ==
    /\ pc = "fetch_trigger"
    /\ wpc \in {"returned", "raised"}
    /\ IF wpc = "raised"
         THEN /\ Exit(result.exc)
              /\ UNCHANGED <<lists, idx>>
         ELSE /\ trigger_orders' = result.val
              /\ IF Truthy(result.val)
                   THEN /\ idx' = 1
                        /\ pc' = "cancel_trigger"
                        /\ Enter("cancel_trigger_order", <<result.val.items[1]>>)
                   ELSE /\ idx' = 0
                        /\ pc' = "fetch_tpsl"
                        /\ Enter("fetch_open_tpsl_orders", <<>>)
              /\ UNCHANGED <<positions, tpsl_orders, limit_orders, exc, failed_at>>
    /\ UNCHANGED <<cfg, prev_sleeps, acquired, connection, outs>>

\* main_trigger_done with a failed cancel tried again for the same order
main_trigger_done_m ==
    /\ pc = "cancel_trigger"
    /\ wpc \in {"returned", "raised"}
    /\ IF wpc = "raised"
         THEN /\ idx' = idx
              /\ pc' = pc
              /\ Enter("cancel_trigger_order", <<trigger_orders.items[idx]>>)
         ELSE IF idx < Len(trigger_orders.items)
         THEN /\ idx' = idx + 1
              /\ pc' = pc
              /\ Enter("cancel_trigger_order", <<trigger_orders.items[idx + 1]>>)
         ELSE /\ idx' = 0
              /\ pc' = "fetch_tpsl"
              /\ Enter("fetch_open_tpsl_orders", <<>>)
    /\ UNCHANGED <<cfg, prev_sleeps, lists, exc, acquired, failed_at, connection, outs>>

\* lines 234-241: the cancel_trigger_order call for one trigger order has ended; a raised
\* error is caught and printed, and the loop goes on
main_trigger_done ==
    /\ pc = "cancel_trigger"
    /\ wpc \in {"returned", "raised"}
    /\ IF idx < Len(trigger_orders.items)
         THEN /\ idx' = idx + 1
              /\ pc' = pc
              /\ Enter("cancel_trigger_order", <<trigger_orders.items[idx + 1]>>)
         ELSE /\ idx' = 0
              /\ pc' = "fetch_tpsl"
              /\ Enter("fetch_open_tpsl_orders", <<>>)
    /\ UNCHANGED <<cfg, prev_sleeps, lists, exc, acquired, failed_at, connection, outs>>

\* main_tpsl_fetched with the TP/SL orders sent to the limit-order cancel
main_tpsl_fetched_m ==
    /\ pc = "fetch_tpsl"
    /\ wpc \in {"returned", "raised"}
    /\ IF wpc = "raised"
         THEN /\ Exit(result.exc)
              /\ UNCHANGED <<lists, idx>>
         ELSE /\ tpsl_orders' = result.val
              /\ IF Truthy(result.val)
                   THEN /\ idx' = 1
                        /\ pc' = "cancel_tpsl"
                        /\ Enter("cancel_limit_order", <<result.val.items[1]>>)
                   ELSE /\ idx' = 0
                        /\ pc' = "fetch_limit"
                        /\ Enter("fetch_open_limit_orders", <<>>)
              /\ UNCHANGED <<positions, trigger_orders, limit_orders, exc, failed_at>>
    /\ UNCHANGED <<cfg, prev_sleeps, acquired, connection, outs>>

\* lines 241-253: the fetch_tpsl call of stage "cancel_tpsl" has ended
main_tpsl_fetched ==
    /\ pc = "fetch_tpsl"
    /\ wpc \in {"returned", "raised"}
    /\ IF wpc = "raised"
         THEN /\ Exit(result.exc)
              /\ UNCHANGED <<lists, idx>>
         ELSE /\ tpsl_orders' = result.val
              /\ IF Truthy(result.val)
                   THEN /\ idx' = 1
                        /\ pc' = "cancel_tpsl"
                        /\ Enter("cancel_trigger_order", <<result.val.items[1]>>)
                   ELSE /\ idx' = 0
                        /\ pc' = "fetch_limit"
                        /\ Enter("fetch_open_limit_orders", <<>>)
              /\ UNCHANGED <<positions, trigger_orders, limit_orders, exc, failed_at>>
    /\ UNCHANGED <<cfg, prev_sleeps, acquired, connection, outs>>

\* lines 253-260: the cancel_trigger_order call for one TP/SL order has ended; a raised
\* error is caught and printed, and the loop goes on
main_tpsl_done ==
    /\ pc = "cancel_tpsl"
    /\ wpc \in {"returned", "raised"}
    /\ IF idx < Len(tpsl_orders.items)
         THEN /\ idx' = idx + 1
              /\ pc' = pc
              /\ Enter("cancel_trigger_order", <<tpsl_orders.items[idx + 1]>>)
         ELSE /\ idx' = 0
              /\ pc' = "fetch_limit"
              /\ Enter("fetch_open_limit_orders", <<>>)
    /\ UNCHANGED <<cfg, prev_sleeps, lists, exc, acquired, failed_at, connection, outs>>

\* lines 260-272: the fetch_limit call of stage "cancel_limit" has ended
main_limit_fetched ==
    /\ pc = "fetch_limit"
    /\ wpc \in {"returned", "raised"}
    /\ IF wpc = "raised"
         THEN /\ Exit(result.exc)
              /\ UNCHANGED <<lists, idx>>
         ELSE /\ limit_orders' = result.val
              /\ IF Truthy(result.val)
                   THEN /\ idx' = 1
                        /\ pc' = "cancel_limit"
                        /\ Enter("cancel_limit_order", <<result.val.items[1]>>)
                   ELSE /\ idx' = 0
                        /\ pc' = "verify_positions"
                        /\ Enter("fetch_open_positions", <<>>)
              /\ UNCHANGED <<positions, trigger_orders, tpsl_orders, exc, failed_at>>
    /\ UNCHANGED <<cfg, prev_sleeps, acquired, connection, outs>>

\* main_limit_done with the stage repeating the cancel of an order until it
\* succeeds
main_limit_done_m ==
    /\ pc = "cancel_limit"
    /\ wpc \in {"returned", "raised"}
    /\ IF wpc = "raised"
         THEN /\ idx' = idx
              /\ pc' = pc
              /\ Enter("cancel_limit_order", <<limit_orders.items[idx]>>)
         ELSE IF idx < Len(limit_orders.items)
         THEN /\ idx' = idx + 1
              /\ pc' = pc
              /\ Enter("cancel_limit_order", <<limit_orders.items[idx + 1]>>)
         ELSE /\ idx' = 0
              /\ pc' = "verify_positions"
              /\ Enter("fetch_open_positions", <<>>)
    /\ UNCHANGED <<cfg, prev_sleeps, lists, exc, acquired, failed_at, connection, outs>>

\* lines 272-279: the cancel_limit_order call for one limit order has ended; a raised
\* error is caught and printed, and the loop goes on
main_limit_done ==
    /\ pc = "cancel_limit"
    /\ wpc \in {"returned", "raised"}
    /\ IF idx < Len(limit_orders.items)
         THEN /\ idx' = idx + 1
              /\ pc' = pc
              /\ Enter("cancel_limit_order", <<limit_orders.items[idx + 1]>>)
         ELSE /\ idx' = 0
              /\ pc' = "verify_positions"
              /\ Enter("fetch_open_positions", <<>>)
    /\ UNCHANGED <<cfg, prev_sleeps, lists, exc, acquired, failed_at, connection, outs>>

\* line 279
main_verified_positions ==
    /\ pc = "verify_positions"
    /\ wpc \in {"returned", "raised"}
    /\ IF wpc = "raised"
         THEN /\ Exit(result.exc)
              /\ UNCHANGED lists
         ELSE /\ positions' = result.val
              /\ pc' = "verify_trigger"
              /\ Enter("fetch_open_trigger_orders", <<>>)
              /\ UNCHANGED <<trigger_orders, tpsl_orders, limit_orders, exc, failed_at>>
    /\ UNCHANGED <<cfg, prev_sleeps, idx, acquired, connection, outs>>

\* line 280
main_verified_trigger ==
    /\ pc = "verify_trigger"
    /\ wpc \in {"returned", "raised"}
    /\ IF wpc = "raised"
         THEN /\ Exit(result.exc)
              /\ UNCHANGED lists
         ELSE /\ trigger_orders' = result.val
              /\ pc' = "verify_tpsl"
              /\ Enter("fetch_open_tpsl_orders", <<>>)
              /\ UNCHANGED <<positions, tpsl_orders, limit_orders, exc, failed_at>>
    /\ UNCHANGED <<cfg, prev_sleeps, idx, acquired, connection, outs>>

\* line 281
main_verified_tpsl ==
    /\ pc = "verify_tpsl"
    /\ wpc \in {"returned", "raised"}
    /\ IF wpc = "raised"
         THEN /\ Exit(result.exc)
              /\ UNCHANGED lists
         ELSE /\ tpsl_orders' = result.val
              /\ pc' = "verify_limit"
              /\ Enter("fetch_open_limit_orders", <<>>)
              /\ UNCHANGED <<positions, trigger_orders, limit_orders, exc, failed_at>>
    /\ UNCHANGED <<cfg, prev_sleeps, idx, acquired, connection, outs>>

\* lines 284-289
positions_report(p) ==
    [printed |-> TRUE, success |-> ~Truthy(p), listed |-> p.items, counts |-> <<>>]

\* line 291
orders_remain(t, p, l) == Truthy(t) \/ Truthy(p) \/ Truthy(l)

\* lines 292-297
orders_report(t, p, l) ==
    [printed |-> TRUE, success |-> ~orders_remain(t, p, l), listed |-> <<>>,
     counts |-> IF orders_remain(t, p, l)
                  THEN <<Len(t.items), Len(p.items), Len(l.items)>> ELSE <<>>]

\* lines 282-297, 57-58: the last fetch of the verification has ended; the
\* report is printed (len() of None raises TypeError) and the body ends
main_verified_limit ==
    /\ pc = "verify_limit"
    /\ wpc \in {"returned", "raised"}
    /\ IF wpc = "raised"
         THEN /\ Exit(result.exc)
              /\ UNCHANGED <<lists, report_positions, report_orders>>
         ELSE /\ limit_orders' = result.val
              /\ report_positions' = positions_report(positions)
              /\ IF /\ orders_remain(trigger_orders, tpsl_orders, result.val)
                    /\ (trigger_orders.none \/ tpsl_orders.none \/ result.val.none)
                   THEN /\ Exit(TypeError)
                        /\ UNCHANGED report_orders
                   ELSE /\ Exit(NoExc)
                        /\ report_orders' =
                              orders_report(trigger_orders, tpsl_orders, result.val)
              /\ UNCHANGED <<positions, trigger_orders, tpsl_orders>>
    /\ UNCHANGED <<cfg, prev_sleeps, idx, acquired, connection, printed_error>>

\* lines 58-59, 299-302: close() has ended; __aexit__ returns False, so an
\* exception of the body goes on to line 299; an error raised by close()
\* itself goes there instead
main_exited ==
    /\ pc = "aexit"
    /\ wpc \in {"returned", "raised"}
    /\ pc' = "done"
    /\ printed_error' = IF wpc = "raised" THEN result.exc ELSE exc
    /\ UNCHANGED <<cfg, prev_sleeps, wvars, lists, idx, exc, acquired, failed_at, connection,
                   report_positions, report_orders>>

----------------------------------------------------------------------------
(* Specification *)

\* Everything but the configuration and the place of main()
Fresh ==
    /\ op = "none"
    /\ arg = <<>>
    /\ attempt = 0
    /\ wpc = "idle"
    /\ delay = 0
    /\ result = Unset
    /\ calls = 0
    /\ slept = <<>>
    /\ outcomes = <<>>
    /\ answers = <<>>
    /\ body_out = NoOut
    /\ op_calls = [o \in CountedOps |-> 0]
    /\ resp = NoResp
    /\ prev_sleeps = 0
    /\ positions = List(<<>>)
    /\ trigger_orders = List(<<>>)
    /\ tpsl_orders = List(<<>>)
    /\ limit_orders = List(<<>>)
    /\ idx = 0
    /\ exc = NoExc
    /\ acquired = FALSE
    /\ failed_at = "none"
    /\ connection = "none"
    /\ printed_error = NoExc
    /\ report_positions = NoReport
    /\ report_orders = NoReport

\* A run of main() with the configuration of lines 17-18
Init ==
    /\ max_retries = MAX_RETRIES
    /\ base_delay = BASE_DELAY
    /\ pc = "init"
    /\ Fresh

Next ==
    \/ close
    \/ load_markets
    \/ fetch_open_positions
    \/ flash_close_position
    \/ fetch_open_trigger_orders
    \/ fetch_open_tpsl_orders
    \/ fetch_open_limit_orders
    \/ cancel_trigger_order
    \/ cancel_limit_order
    \/ sleep
    \/ main_start
    \/ main_entered
    \/ main_positions_fetched
    \/ main_positions_done
    \/ main_trigger_fetched
    \/ main_trigger_done
    \/ main_tpsl_fetched
    \/ main_tpsl_done
    \/ main_limit_fetched
    \/ main_limit_done
    \/ main_verified_positions
    \/ main_verified_trigger
    \/ main_verified_tpsl
    \/ main_verified_limit
    \/ main_exited

Spec == Init /\ [][Next]_vars

----------------------------------------------------------------------------
(* The decorator by itself: any sequence of calls of the decorated methods, *)
(* under any configuration of MAX_RETRIES >= 1 and BASE_DELAY.              *)

Ops == CountedOps \cup {"flash_close_position", "cancel_trigger_order",
                        "cancel_limit_order"}

Args(o) ==
    CASE o = "flash_close_position" ->
             { <<[symbol |-> 1, side |-> Side(1), contracts |-> <<2>>]>> }
      [] o = "cancel_trigger_order" ->
             { <<[symbol |-> "BTCUSDT", orderId |-> 1, planType |-> pl]>>
               : pl \in {"normal_plan", "profit_loss"} }
      [] o = "cancel_limit_order" ->
             { <<[symbol |-> "BTCUSDT", orderId |-> 1, orderType |-> "limit"]>> }
      [] OTHER -> { <<>> }

RECURSIVE SumFn(_, _)
SumFn(f, S) == IF S = {} THEN 0
               ELSE LET x == CHOOSE y \in S : TRUE IN f[x] + SumFn(f, S \ {x})

\* lines 23-25: a decorated method is called when no call is in progress
call ==
    /\ pc = "harness"
    /\ wpc \in {"idle", "returned", "raised"}
    /\ \E o \in Ops : \E a \in Args(o) :
         /\ o \in CountedOps => SumFn(op_calls, CountedOps) < MaxCalls
         /\ Enter(o, a)
    /\ prev_sleeps' = Len(slept)
    /\ UNCHANGED <<cfg, pc, lists, idx, exc, acquired, failed_at, connection, outs>>

InitRetry ==
    /\ max_retries \in Attempts
    /\ base_delay \in Delays
    /\ pc = "harness"
    /\ Fresh

NextRetry ==
    \/ call
    \/ close
    \/ load_markets
    \/ fetch_open_positions
    \/ flash_close_position
    \/ fetch_open_trigger_orders
    \/ fetch_open_tpsl_orders
    \/ fetch_open_limit_orders
    \/ cancel_trigger_order
    \/ cancel_limit_order
    \/ sleep

SpecRetry == InitRetry /\ [][NextRetry]_vars

TypeOK ==
    /\ wpc \in {"idle", "try", "sleep", "returned", "raised"}
    /\ attempt \in 0 .. max_retries
    /\ calls \in 0 .. max_retries

----------------------------------------------------------------------------
(* Properties of the decorator (checked under SpecRetry) *)

RECURSIVE Sum(_)
Sum(q) == IF q = <<>> THEN 0 ELSE Head(q) + Sum(Tail(q))

FailedMessage(e) == <<"BitgetExchange operation failed: ">> \o e.msg

\* The call in progress has only been answered with rate-limit signals.
AllRateLimited ==
    outcomes # <<>> /\ \A i \in 1 .. Len(outcomes) : outcomes[i] = "rl"

\* C1: a decorated method whose every invocation signals rate-limit is invoked
\* exactly max_retries times, sleeps base_delay * 2^i after its i-th failed
\* invocation (i = 0 .. max_retries - 2, no sleep after the last one) and then
\* raises the "operation failed" error; no call invokes it more than
\* max_retries times.
C1_RateLimitExhaustsBudget ==
    /\ calls <= max_retries
    /\ AllRateLimited =>
         /\ \A i \in 1 .. Len(slept) : slept[i] = base_delay * Pow2(i - 1)
         /\ Len(slept) <= max_retries - 1
         /\ wpc = "try" => Len(slept) = calls /\ calls < max_retries
         /\ wpc = "sleep" =>
              /\ Len(slept) = calls - 1
              /\ calls < max_retries
              /\ delay = base_delay * Pow2(calls - 1)
         /\ wpc # "returned"
         /\ wpc = "raised" =>
              /\ calls = max_retries
              /\ Len(slept) = max_retries - 1
              /\ result.kind = "error"
              /\ result.exc.kind = "Exception"
              /\ result.exc.msg = FailedMessage(body_out.exc)

C1_Witness ==
    /\ AllRateLimited
    /\ wpc = "raised"
    /\ max_retries = MAX_RETRIES
    /\ base_delay = 2
    /\ calls = 5
    /\ slept = <<2, 4, 8, 16>>

\* C2: an invocation that fails with an error that is no rate-limit signal is
\* the last invocation of its call, whether it is the first one or follows
\* rate-limit retries: the call raises the "operation failed" error at once,
\* without a sleep after that failure.
C2_OtherErrorNeverRetried ==
    \A i \in 1 .. Len(outcomes) :
        outcomes[i] = "err" =>
            /\ i = Len(outcomes)
            /\ \A j \in 1 .. i - 1 : outcomes[j] = "rl"
            /\ wpc = "raised"
            /\ calls = i
            /\ Len(slept) = i - 1
            /\ delay = 0
            /\ result.kind = "error"
            /\ result.exc.msg = FailedMessage(body_out.exc)

C2_Witness ==
    /\ outcomes = <<"rl", "rl", "err">>
    /\ wpc = "raised"
    /\ calls = 3
    /\ slept = <<base_delay, 2 * base_delay>>

\* C3: a call whose invocations 1..k signal rate-limit (k < max_retries) and
\* whose invocation k+1 succeeds returns the value of that invocation, after
\* exactly k+1 invocations and a total sleep of base_delay * (2^k - 1); the
\* successful invocation is the last one and no sleep follows it.
C3_SuccessAfterRetries ==
    \A i \in 1 .. Len(outcomes) :
        outcomes[i] = "ok" =>
            /\ i = Len(outcomes)
            /\ i <= max_retries
            /\ \A j \in 1 .. i - 1 : outcomes[j] = "rl"
            /\ wpc = "returned"
            /\ body_out.ok
            /\ result.kind = "value"
            /\ result.val = body_out.val
            /\ result.exc = NoExc
            /\ calls = i
            /\ Len(slept) = i - 1
            /\ Sum(slept) = base_delay * (Pow2(i - 1) - 1)
            /\ delay = 0

C3_Witness ==
    /\ outcomes = <<"rl", "rl", "rl", "ok">>
    /\ wpc = "returned"
    /\ op = "fetch_open_positions"
    /\ Truthy(result.val)
    /\ base_delay = 2
    /\ Sum(slept) = 14

----------------------------------------------------------------------------
(* Properties of main() (checked under Spec) *)

ItemStages == {"close_position", "cancel_trigger", "cancel_tpsl", "cancel_limit"}

StageList(p) ==
    CASE p = "close_position" -> positions
      [] p = "cancel_trigger" -> trigger_orders
      [] p = "cancel_tpsl"    -> tpsl_orders
      [] p = "cancel_limit"   -> limit_orders

StageItemOp(p) ==
    CASE p = "close_position" -> "flash_close_position"
      [] p = "cancel_trigger" -> "cancel_trigger_order"
      [] p = "cancel_tpsl"    -> "cancel_trigger_order"
      [] p = "cancel_limit"   -> "cancel_limit_order"

StageFetch(p) ==
    CASE p = "close_position" -> "fetch_positions"
      [] p = "cancel_trigger" -> "fetch_trigger"
      [] p = "cancel_tpsl"    -> "fetch_tpsl"
      [] p = "cancel_limit"   -> "fetch_limit"

StageAfter(p) ==
    CASE p \in {"fetch_positions", "close_position"} -> "fetch_trigger"
      [] p \in {"fetch_trigger", "cancel_trigger"}   -> "fetch_tpsl"
      [] p \in {"fetch_tpsl", "cancel_tpsl"}         -> "fetch_limit"
      [] p \in {"fetch_limit", "cancel_limit"}       -> "verify_positions"

\* The decorated method main() calls at each of its awaits.
StageOp(p) ==
    CASE p = "aenter" -> "load_markets"
      [] p \in {"fetch_positions", "verify_positions"} -> "fetch_open_positions"
      [] p \in {"fetch_trigger", "verify_trigger"}     -> "fetch_open_trigger_orders"
      [] p \in {"fetch_tpsl", "verify_tpsl"}           -> "fetch_open_tpsl_orders"
      [] p \in {"fetch_limit", "verify_limit"}         -> "fetch_open_limit_orders"
      [] p \in ItemStages -> StageItemOp(p)
      [] p = "aexit" -> "close"
      [] OTHER -> "none"

\* C4: in each of the four action stages every item of the fetched list gets
\* its close/cancel call, in list order, whichever of these calls raise; when
\* the call for the last item has ended (returned or raised) main() goes on to
\* the fetch of the next stage (after the limit orders: of the verification).
C4_PerItemIsolation ==
    [][ /\ (pc \notin ItemStages /\ pc' \in ItemStages) =>
              /\ pc = StageFetch(pc')
              /\ wpc = "returned"
              /\ Truthy(result.val)
              /\ idx' = 1
              /\ op' = StageItemOp(pc')
              /\ arg' = <<result.val.items[1]>>
        /\ (pc \in ItemStages /\ calls' = calls + 1) =>
              /\ op = StageItemOp(pc)
              /\ idx \in 1 .. Len(StageList(pc).items)
              /\ arg = <<StageList(pc).items[idx]>>
        /\ (pc \in ItemStages /\ wpc \in {"returned", "raised"}) =>
              /\ lists' = lists
              /\ IF idx < Len(StageList(pc).items)
                   THEN /\ pc' = pc
                        /\ idx' = idx + 1
                        /\ op' = StageItemOp(pc)
                        /\ arg' = <<StageList(pc).items[idx + 1]>>
                        /\ wpc' = "try"
                        /\ calls' = 0
                   ELSE /\ pc' = StageAfter(pc)
                        /\ op' = StageOp(StageAfter(pc))
                        /\ wpc' = "try"
                        /\ calls' = 0
      ]_vars

C4_Witness ==
    /\ pc = "cancel_tpsl"
    /\ idx = 1
    /\ Len(tpsl_orders.items) = 2
    /\ wpc = "raised"
    /\ Truthy(positions)
    /\ Truthy(trigger_orders)

\* C5: once __aenter__ has returned, every way main() ends has called close()
\* exactly once, after everything else: no decorated method is called after
\* close(), close() is not called before the body is left, and the connection
\* is released only by the successful invocation that ends that call.
C5_ReleasedOnceAndLast ==
    /\ op_calls["close"] <= 1
    /\ op_calls["close"] = 1 => op = "close" /\ pc \in {"aexit", "done"}
    /\ (acquired /\ pc = "done") =>
          op_calls["close"] = 1 /\ wpc \in {"returned", "raised"}
    /\ connection = "closed" => op = "close" /\ wpc = "returned"

C5_Witness ==
    /\ pc = "done"
    /\ acquired
    /\ exc # NoExc
    /\ failed_at = "fetch_trigger"
    /\ op_calls["close"] = 1
    /\ connection = "closed"

Rank(p) ==
    CASE p = "init" -> 0
      [] p = "aenter" -> 1
      [] p \in {"fetch_positions", "close_position"} -> 2
      [] p \in {"fetch_trigger", "cancel_trigger"} -> 3
      [] p \in {"fetch_tpsl", "cancel_tpsl"} -> 4
      [] p \in {"fetch_limit", "cancel_limit"} -> 5
      [] p \in {"verify_positions", "verify_trigger", "verify_tpsl", "verify_limit"} -> 6
      [] p = "aexit" -> 7
      [] p = "done" -> 8

\* C6: main() goes through acquire, close positions, cancel trigger orders,
\* cancel TP/SL orders, cancel limit orders, verify, release in this order,
\* one stage after the other (an exception takes it to the release or to the
\* end), and every remote invocation is of the method of the stage main() is
\* in: closes only in the positions stage, cancels only in their own stage,
\* nothing but fetches in the verification.
C6_StageOrder ==
    [][ /\ \/ Rank(pc') = Rank(pc)
           \/ Rank(pc') = Rank(pc) + 1
           \/ (pc' \in {"aexit", "done"} /\ Rank(pc') > Rank(pc))
        /\ calls' = calls + 1 => op = StageOp(pc)
        /\ op' # op => op' = StageOp(pc')
      ]_vars

C6_Witness ==
    /\ pc = "verify_positions"
    /\ calls = 1
    /\ Truthy(positions)
    /\ Truthy(trigger_orders)
    /\ Truthy(tpsl_orders)
    /\ Truthy(limit_orders)

\* C7: for every decorated method, a rate-limit answer of the exchange to an
\* invocation below the maximum is followed by the backoff sleep and another
\* invocation of the same method, and any other failed invocation ends the
\* call with the "operation failed" error.
C7_UniformRetryPolicy ==
    (answers # <<>> /\ Len(answers) = calls) =>
        LET n == Len(answers) IN
        /\ (answers[n] = "rl" /\ n < max_retries) =>
              \/ wpc = "sleep" /\ delay = base_delay * Pow2(n - 1)
              \/ wpc = "try" /\ attempt = n /\ Len(slept) = n
        /\ (answers[n] = "err" \/ (answers[n] = "rl" /\ n >= max_retries)) =>
              /\ wpc = "raised"
              /\ result.kind = "error"
              /\ result.exc.msg[1] = "BitgetExchange operation failed: "

\* C8: when the fetch of stage 2, 3 or 4 raises, the error is printed, and the
\* verification (the second fetch of the positions) and close() are still
\* attempted before main() ends.
C8_StageFetchFailureStillVerifies ==
    (pc = "done" /\ failed_at \in {"fetch_positions", "fetch_trigger", "fetch_tpsl"}) =>
        /\ printed_error # NoExc
        /\ op_calls["fetch_open_positions"] >= 2
        /\ op_calls["close"] = 1

\* C9: when load_markets() raises in __aenter__, no fetch, close or cancel is
\* ever called, the error is printed, close() is not called, and no
\* connection opened during the acquisition is left open.
C9_AcquireFailureIsFatal ==
    (pc = "done" /\ ~acquired /\ op_calls["load_markets"] = 1) =>
        /\ op = "load_markets"
        /\ wpc = "raised"
        /\ \A o \in CountedOps \ {"load_markets"} : op_calls[o] = 0
        /\ printed_error = result.exc
        /\ printed_error # NoExc
        /\ connection # "open"

\* C10: every order of the TP/SL fetch is cancelled with cancel_trigger_order,
\* never with cancel_limit_order, and cancel_limit_order is only called for
\* the orders the limit-order fetch returned.
C10_TpslUsesTriggerCancel ==
    /\ pc = "cancel_tpsl" =>
          /\ op = "cancel_trigger_order"
          /\ idx \in 1 .. Len(tpsl_orders.items)
          /\ arg = <<tpsl_orders.items[idx]>>
    /\ (arg # <<>> /\ "planType" \in DOMAIN arg[1]) =>
          op = "cancel_trigger_order"
    /\ op = "cancel_limit_order" =>
          /\ pc = "cancel_limit"
          /\ idx \in 1 .. Len(limit_orders.items)
          /\ arg = <<limit_orders.items[idx]>>
          /\ arg[1].orderType = "limit"

C10_Witness ==
    /\ pc = "cancel_tpsl"
    /\ idx = 2
    /\ calls = 1
    /\ wpc = "returned"
    /\ arg[1].planType = "profit_loss"
    /\ Truthy(limit_orders) = FALSE

----------------------------------------------------------------------------
(* Properties of the final report (checked under Spec) *)

\* The four fetches of the verification have all returned.
Verified ==
    /\ pc \in {"aexit", "done"}
    /\ op_calls["fetch_open_limit_orders"] = 2
    /\ failed_at = "none" \/ exc = TypeError

\* C11: once the verification has re-fetched everything, the report is the
\* one of the re-fetch: the positions it returned are listed as still open,
\* the per-kind counts of remaining orders are the lengths of the re-fetched
\* lists, and success is reported for positions (for orders) exactly when the
\* re-fetched positions (all three re-fetched order lists) are empty.
C11_ReportIsTheRefetch ==
    Verified =>
      /\ report_positions.printed
      /\ report_positions.listed = positions.items
      /\ report_positions.success <=> positions.items = <<>>
      /\ report_orders.printed
      /\ report_orders.success <=>
            /\ trigger_orders.items = <<>>
            /\ tpsl_orders.items = <<>>
            /\ limit_orders.items = <<>>
      /\ ~report_orders.success =>
            report_orders.counts = <<Len(trigger_orders.items),
                                     Len(tpsl_orders.items),
                                     Len(limit_orders.items)>>

\* The limit-order fetch in progress was answered with an empty response or
\* one without the "data" field.
LimitFetchUnshaped ==
    /\ op = "fetch_open_limit_orders"
    /\ resp.shape \in {"empty", "no_data"}

\* C12: the limit-order fetch answered with an empty response, or one without
\* the data field, returns the empty list and raises nothing; in stage
\* "cancel_limit" the run then cancels nothing and goes on to the verification.
C12_UnshapedLimitResponseIsNoOrders ==
    /\ [](LimitFetchUnshaped =>
            /\ wpc = "returned"
            /\ result = Returned(List(<<>>)))
    /\ [][(LimitFetchUnshaped /\ pc = "fetch_limit") =>
            /\ pc' = "verify_positions"
            /\ op' = "fetch_open_positions"
            /\ limit_orders' = List(<<>>)
            /\ exc' = NoExc]_vars

C12_Witness ==
    /\ pc = "fetch_limit"
    /\ LimitFetchUnshaped
    /\ resp.shape = "no_data"
    /\ result = Returned(List(<<>>))

OrderStages == {"cancel_trigger", "cancel_tpsl", "cancel_limit"}

\* The stage-2 fetch found no open position and main() is in the order stages.
NoOpenPositions ==
    /\ ~Truthy(positions)
    /\ pc \in OrderStages \cup {StageFetch(p) : p \in OrderStages}

\* C13: when the positions fetch returns the empty list, main() calls
\* flash_close_position not once and goes on to the three order stages, where
\* every order of a non-empty trigger, TP/SL or limit list gets its cancel
\* call: the first when the list is fetched, the next when a call has ended,
\* and the stage is left only after the call for the last order.
C13_NoPositionsStillCancelsOrders ==
    /\ [](NoOpenPositions => op # "flash_close_position")
    /\ [][/\ (pc = "fetch_positions" /\ wpc = "returned" /\ ~Truthy(result.val)) =>
               /\ pc' = "fetch_trigger"
               /\ op' = "fetch_open_trigger_orders"
               /\ ~Truthy(positions')
          /\ \A p \in OrderStages :
               /\ ( /\ NoOpenPositions
                    /\ pc = StageFetch(p)
                    /\ wpc = "returned"
                    /\ Truthy(result.val) ) =>
                    /\ pc' = p
                    /\ idx' = 1
                    /\ op' = StageItemOp(p)
                    /\ arg' = <<result.val.items[1]>>
               /\ ( /\ NoOpenPositions
                    /\ pc = p
                    /\ wpc \in {"returned", "raised"} ) =>
                    IF idx < Len(StageList(p).items)
                      THEN /\ pc' = p
                           /\ idx' = idx + 1
                           /\ op' = StageItemOp(p)
                           /\ arg' = <<StageList(p).items[idx + 1]>>
                      ELSE pc' = StageAfter(p)]_vars

C13_Witness ==
    /\ pc = "cancel_limit"
    /\ ~Truthy(positions)
    /\ Len(trigger_orders.items) = 2
    /\ Len(tpsl_orders.items) = 1
    /\ Len(limit_orders.items) = 2
    /\ idx = 2
    /\ wpc = "raised"

----------------------------------------------------------------------------
(* Scope of the retry context (checked under SpecRetry) *)

\* C14: whatever the calls before it did, a call of a decorated method starts
\* at attempt index 0 and counts its own invocations only: the attempt index
\* is the number of its own sleeps, its first sleep is base_delay, and it
\* gives up on a rate-limit signal only at its own max_retries-th invocation.
C14_RetryContextPerCall ==
    wpc # "idle" =>
      /\ attempt = Len(slept)
      /\ wpc = "try" => calls = attempt
      /\ wpc \in {"sleep", "returned", "raised"} => calls = attempt + 1
      /\ slept # <<>> => slept[1] = base_delay
      /\ (wpc = "sleep" /\ slept = <<>>) => delay = base_delay
      /\ (wpc = "raised" /\ is_rate_limit(body_out.exc)) => calls = max_retries

\* A call that follows one with sleeps runs through its whole budget.
C14_Witness ==
    /\ prev_sleeps >= 1
    /\ max_retries = 2
    /\ base_delay = 2
    /\ wpc = "raised"
    /\ calls = max_retries
    /\ slept = <<base_delay>>

----------------------------------------------------------------------------
(* One call per step of main() (checked under Spec) *)

Fetches == {"fetch_open_positions", "fetch_open_trigger_orders",
            "fetch_open_tpsl_orders", "fetch_open_limit_orders"}

\* The place of a fetch among the four: its stage has rank 1 + FetchNo.
FetchNo(f) ==
    CASE f = "fetch_open_positions"      -> 1
      [] f = "fetch_open_trigger_orders" -> 2
      [] f = "fetch_open_tpsl_orders"    -> 3
      [] f = "fetch_open_limit_orders"   -> 4

VerifyNo(p) ==
    CASE p = "verify_positions" -> 1
      [] p = "verify_trigger"   -> 2
      [] p = "verify_tpsl"      -> 3
      [] p = "verify_limit"     -> 4

\* The calls of fetch f main() has made when it is at p (before the release).
FetchCallsAt(f, p) ==
    IF Rank(p) < 1 + FetchNo(f) THEN 0
    ELSE IF Rank(p) < 6 THEN 1
    ELSE IF VerifyNo(p) < FetchNo(f) THEN 1
    ELSE 2

\* C15: main() retries nothing itself. Each fetch is called once in its stage
\* and once in the verification, and each fetched item (the lists have no item
\* twice) is the argument of exactly one close/cancel call: an ended call for
\* an item is followed by the call for the next item, never by another call
\* for the same one. The remote invocations for one item are therefore those
\* of one decorated call: at least 1 and at most MAX_RETRIES, also when the
\* call raises.
C15_NoOrchestratorRetry ==
    /\ [](\A f \in Fetches :
            IF pc \in {"init", "aexit", "done"}
              THEN op_calls[f] <= 2
              ELSE op_calls[f] = FetchCallsAt(f, pc))
    /\ [](pc \in ItemStages =>
            LET items == StageList(pc).items IN
            /\ \A i, j \in 1 .. Len(items) : i # j => items[i] # items[j]
            /\ idx \in 1 .. Len(items)
            /\ op = StageItemOp(pc)
            /\ arg = <<items[idx]>>
            /\ calls <= MAX_RETRIES
            /\ wpc \in {"returned", "raised"} => calls >= 1)
    /\ [][(pc \in ItemStages /\ pc' = pc /\ calls' = 0) =>
            /\ wpc \in {"returned", "raised"}
            /\ idx' = idx + 1]_vars

\* The call for the first of two trigger orders has failed after MAX_RETRIES
\* invocations.
C15_Witness ==
    /\ pc = "cancel_trigger"
    /\ Len(trigger_orders.items) = 2
    /\ idx = 1
    /\ wpc = "raised"
    /\ calls = MAX_RETRIES
    /\ op_calls["fetch_open_trigger_orders"] = 1

----------------------------------------------------------------------------
(* Termination (checked under SpecLive) *)

\* Every await of the run is answered: the remote operation returns or fails,
\* asyncio.sleep returns, and main() takes its next step.
SpecLive == Init /\ [][Next]_vars /\ WF_vars(Next)

\* C16: when every invocation is answered the run ends: no call invokes the
\* remote operation more than MAX_RETRIES times, no stage goes beyond the
\* end of its list, and on every path (a failed acquire and a failed stage
\* fetch included) main() reaches its last line.
C16_Terminates ==
    /\ [](calls <= MAX_RETRIES)
    /\ [](pc \in ItemStages => idx <= Len(StageList(pc).items))
    /\ <>(pc = "done")

\* The run has ended after a failed TP/SL stage fetch.
C16_Witness ==
    /\ pc = "done"
    /\ failed_at = "fetch_tpsl"
    /\ printed_error # NoExc

----------------------------------------------------------------------------
(* Eligibility of the items acted on (checked under Spec) *)

HasQuantity(pos) == Len(pos.contracts) = 1 /\ pos.contracts[1] > 0

AllOf(q, P(_)) == \A i \in 1 .. Len(q) : P(q[i])

IsLimitOrder(order) == order.orderType = "limit"

\* C17: flash_close_position is called only for a position of the fetched
\* list, and every position of that list has a non-null quantity above 0;
\* cancel_limit_order is called only for an order of the fetched list, and
\* every order of that list has order type "limit". What the exchange lists
\* beyond these (a position with a null or zero quantity, an order of another
\* type) is in no list main() holds, gets no call, and is neither listed nor
\* counted in the final report.
C17_OnlyEligibleItems ==
    /\ op = "flash_close_position" =>
         /\ pc = "close_position"
         /\ arg = <<positions.items[idx]>>
         /\ HasQuantity(arg[1])
    /\ op = "cancel_limit_order" =>
         /\ pc = "cancel_limit"
         /\ arg = <<limit_orders.items[idx]>>
         /\ IsLimitOrder(arg[1])
    /\ AllOf(positions.items, HasQuantity)
    /\ AllOf(limit_orders.items, IsLimitOrder)
    /\ (op = "fetch_open_positions" /\ wpc = "returned") =>
         /\ AllOf(result.val.items, HasQuantity)
         /\ Len(result.val.items) <= resp.n
    /\ (op = "fetch_open_limit_orders" /\ wpc = "returned") =>
         /\ AllOf(result.val.items, IsLimitOrder)
         /\ Len(result.val.items) <= resp.n
    /\ AllOf(report_positions.listed, HasQuantity)
    /\ (report_orders.printed /\ ~report_orders.success) =>
         report_orders.counts[3] = Len(limit_orders.items)

\* The stage-2 fetch was answered with two positions, one of them without an
\* open quantity, and has returned the other.
C17_Witness ==
    /\ pc = "fetch_positions"
    /\ wpc = "returned"
    /\ resp.n = 2
    /\ Len(result.val.items) = 1

----------------------------------------------------------------------------
(* The success report for orders (checked under Spec) *)

\* The step prints "All orders canceled successfully".
OrdersSuccessPrinted ==
    /\ ~report_orders.printed
    /\ report_orders'.printed
    /\ report_orders'.success

\* C18: "All orders canceled successfully" is printed only when the three
\* order fetches of the verification were answered without a failure and
\* returned no order: the step that prints it ends the limit-order fetch of
\* the verification, the exchange has answered that fetch with a response and
\* not with a rate-limit or other error, and the three lists are empty.
C18_SuccessOnlyAfterCleanVerification ==
    [][OrdersSuccessPrinted =>
         /\ pc = "verify_limit"
         /\ op = "fetch_open_limit_orders"
         /\ wpc = "returned"
         /\ answers # <<>>
         /\ answers[Len(answers)] = "ok"
         /\ ~Truthy(trigger_orders')
         /\ ~Truthy(tpsl_orders')
         /\ ~Truthy(limit_orders')]_vars

----------------------------------------------------------------------------
(* The decorator for every max-attempt configuration (checked under SpecBudget) *)

\* The calls of SpecRetry, with MAX_RETRIES = 0 among the configurations.
InitBudget ==
    /\ max_retries \in {0} \cup Attempts
    /\ base_delay \in Delays
    /\ pc = "harness"
    /\ Fresh

SpecBudget == InitBudget /\ [][NextRetry]_vars

\* The last invocation of the call in progress succeeded.
LastSucceeded == outcomes # <<>> /\ outcomes[Len(outcomes)] = "ok"

\* C19: for every max_retries >= 0 a call of a decorated method returns only
\* when one of its invocations succeeded, and returns the value of that
\* invocation; a call that ends otherwise (max_retries = 0 included, where
\* nothing is invoked) ends with the "operation failed" error.
C19_ReturnsOnlyAfterSuccess ==
    /\ wpc = "returned" =>
         /\ calls >= 1
         /\ LastSucceeded
         /\ result = Returned(body_out.val)
    /\ (wpc \in {"returned", "raised"} /\ ~LastSucceeded) =>
         /\ wpc = "raised"
         /\ result.kind = "error"
         /\ result.exc.kind = "Exception"

====
